---- MODULE Spec2Model ----
(***************************************************************************)
(* A model of the solana-validator-optimizer Rust port:                    *)
(*   - ProcessManager (process_manager.rs): the command channel, the       *)
(*     command loop and its handlers, the validator child processes;       *)
(*   - ValidatorConfig load/save (config.rs);                              *)
(*   - the metrics samplers (monitor.rs, optimizer.rs, real_optimizer.rs); *)
(*   - the manager's periodic monitoring and optimization loops on a       *)
(*     clock (process_manager.rs).                                         *)
(***************************************************************************)
EXTENDS Integers, Sequences, FiniteSets, TLC

\* The field names of the model's records; every record lists its fields in
\* this order.
FieldOrder ==
  [accounts_db_cache_mb |-> 1, answer |-> 2, arg |-> 3, attempts |-> 4,
   cache |-> 5, called |-> 6, ch |-> 7, chars |-> 8, cli_ok |-> 9,
   column |-> 10, command |-> 11, config |-> 12, cpu_usage |-> 13,
   enable_quic |-> 14, env |-> 15, eps |-> 16, err |-> 17, exists |-> 18,
   failed_at |-> 19, file |-> 20, fn |-> 21, how |-> 22, ignoresTerm |-> 23,
   incremental_snapshot_interval |-> 24, keypairs_ok |-> 25, kind |-> 26,
   last_voted_slot |-> 27, load_ok |-> 28, memory_usage |-> 29,
   memory_usage_mb |-> 30, monitoring |-> 31, n |-> 32,
   network_latency_ms |-> 33, new |-> 34, new_value |-> 35, none |-> 36,
   num_slots |-> 37, num_transactions |-> 38, ok |-> 39, old |-> 40,
   old_value |-> 41, optimization |-> 42, out |-> 43, panic |-> 44,
   parameter |-> 45, periods |-> 46, proc |-> 47, process |-> 48,
   rate |-> 49, readers |-> 50, req |-> 51, requires_restart |-> 52,
   result |-> 53, returned |-> 54, rpc_threads |-> 55, samples |-> 56,
   self |-> 57, sigs |-> 58, skip_rate |-> 59, slot |-> 60, snapshot |-> 61,
   snapshot_interval |-> 62, src |-> 63, state |-> 64, text |-> 65,
   tpu_coalesce_ms |-> 66, update |-> 67, value |-> 68, vote_lag |-> 69,
   vote_success_rate |-> 70, votes |-> 71, writer |-> 72]

\* ------------------------------------------------------------------ bounds
\* Validator processes the operating system lets the manager spawn.
MaxChildren == 2
\* Requests the environment makes (public API calls, raw commands, CLI stop).
MaxReq == 3
\* Commands in flight in the channel (the code's capacity is 100).
MaxQueue == 2

\* Option::None of an Option<u32> hot-reload parameter.
None == -1

\* ------------------------------------------------------- ValidatorConfig
\* The three OptimizationConfig fields the manager mutates.
RpcThreadsVals == {8, 32}
TpuCoalesceVals == {1, 5}
SnapshotIntervalVals == {100, 200}

Configs ==
  [incremental_snapshot_interval : SnapshotIntervalVals,
   rpc_threads : RpcThreadsVals,
   tpu_coalesce_ms : TpuCoalesceVals]

\* impl Default for OptimizationConfig
DefaultConfig ==
  [incremental_snapshot_interval |-> 100, rpc_threads |-> 32, tpu_coalesce_ms |-> 1]

\* serde_json::to_string_pretty: the fields in declaration order, one
\* "key": value entry each.
Serialize(cfg) ==
  << <<"rpc_threads", cfg.rpc_threads>>,
     <<"tpu_coalesce_ms", cfg.tpu_coalesce_ms>>,
     <<"incremental_snapshot_interval", cfg.incremental_snapshot_interval>> >>

\* serde_json::from_str: fails unless every field is present.
ParseOk(text) ==
  /\ Len(text) = 3
  /\ text[1][1] = "rpc_threads"
  /\ text[2][1] = "tpu_coalesce_ms"
  /\ text[3][1] = "incremental_snapshot_interval"

Parse(text) ==
  [incremental_snapshot_interval |-> text[3][2],
   rpc_threads |-> text[1][2],
   tpu_coalesce_ms |-> text[2][2]]

\* The outcomes of fs::write(path, contents) on a file holding `old`: the whole
\* contents written; or an error, with the file untouched (it could not be
\* opened) or truncated and cut short (the write failed part-way).
FsWriteOutcomes(old, contents) ==
  {[ok |-> TRUE, text |-> contents], [ok |-> FALSE, text |-> old]}
    \cup {[ok |-> FALSE, text |-> SubSeq(contents, 1, k)] : k \in 0..(Len(contents) - 1)}

\* ValidatorConfig::save: serialize, then fs::write straight onto the file.
SaveOutcomes(old, cfg) == FsWriteOutcomes(old, Serialize(cfg))

\* -------------------------------------------------------- ProcessManager
VARIABLES
  config,             \* Arc<RwLock<ValidatorConfig>>
  disk,               \* contents of ~/.solana-optimizer/config.json
  validator_process,  \* Arc<Mutex<Option<Child>>>: 0 is None, else the child
  children,           \* the validator processes spawned so far
  nSpawned,           \* how many were spawned
  queue,              \* the mpsc channel of ManagerCommand
  nextReq,            \* next request id
  replies,            \* what each request's call returned to its caller
  failed,             \* requests whose handling hit a spawn or save error
  auto_optimize,      \* OptimizationState.auto_optimize
  status_line         \* what the last GetStatus printed

pmVars ==
  <<config, disk, validator_process, children, nSpawned, queue, nextReq,
    replies, failed, auto_optimize, status_line>>

\* ------------------------------------------- config file across restarts
VARIABLES
  file,        \* ~/.solana-optimizer/config.json: [exists, text]
  cf_pc,       \* the process: "down", "up", or "failed" (load returned Err)
  cf_mem,      \* the ValidatorConfig the running process holds
  cf_save,     \* the last save begun: [how, old, new]
  cf_loaded    \* what the last load returned: [called, ok, value]

cfVars == <<file, cf_pc, cf_mem, cf_save, cf_loaded>>

\* ------------------------------------------------------ metrics samplers
VARIABLES
  sampled      \* the last sample taken: who took it, from what, with what result

smVars == <<sampled>>

\* ---------------------------------------- the manager's periodic loops
VARIABLES
  now,                \* seconds since ProcessManager::run was called
  shutdown_at,        \* when run's caller dropped its future; None before
  next_tick,          \* each loop's ticker: its next deadline
  last_iter,          \* each loop: when its latest iteration began; None before
  current_metrics,    \* OptimizationState.current_metrics
  last_optimization,  \* OptimizationState.last_optimization
  cycle_started       \* when the latest auto-optimization cycle began; None before

lpVars ==
  <<now, shutdown_at, next_tick, last_iter, current_metrics, last_optimization,
    cycle_started>>

\* ------------------------------------------- the advisors and their state
VARIABLES
  metrics_cache,      \* SolanaInterface.metrics_cache
  current_config,     \* RealOptimizer.current_config
  optimized_json,     \* validator-optimized.json: [state, value]
  last_call           \* the latest call: [arg, fn, result, self], self the state
                      \* of the callee's object when it was called

adVars == <<metrics_cache, current_config, optimized_json, last_call>>

\* ------------------------------------------------ the optimizer loops
VARIABLES
  al_pc,               \* SolanaInterface::auto_optimize_loop: "running", or how
                       \* it returned
  al_last,             \* what the endpoint did with its latest sample
  optimization_count,  \* its optimization_count
  baseline_set,        \* its baseline_metrics.is_some()
  al_sleep,            \* seconds it last slept
  ro_pc,               \* RealOptimizer::start_optimization: "running", or how
                       \* it returned
  ro_last,             \* where its latest sample came from
  metrics_history,     \* RealOptimizer.metrics_history: each snapshot is the
                       \* number of its collection
  snapshots_collected  \* snapshots start_optimization has collected

cyVars ==
  <<al_pc, al_last, optimization_count, baseline_set, al_sleep, ro_pc, ro_last,
    metrics_history, snapshots_collected>>

\* ------------------------------------------- waiting for a subprocess
VARIABLES
  wt_op,       \* the operation that waits for a subprocess, or "idle"
  wt_child,    \* that subprocess: "running", "hung" (it will never exit),
               \* "exited"
  wt_elapsed,  \* seconds the operation has waited
  wt_result    \* how the last operation returned

wtVars == <<wt_op, wt_child, wt_elapsed, wt_result>>

\* ------------------------------------------------ the metric estimates
VARIABLES
  measured     \* the latest estimate: the function, its input, its result

mtVars == <<measured>>

\* ------------------------------------------- the interface's metrics cache
VARIABLES
  gm_calls,    \* calls of get_validator_metrics so far
  gm_returned  \* what the latest call returned: Ok(value), or the step it
               \* failed at

gmVars == <<gm_calls, gm_returned>>

\* ------------------------------------------- the manager's three tasks
VARIABLES
  tk_pc,       \* each task: "tick" (between iterations), "wants" or "has"
  tk_lock,     \* each task: the lock or channel slot it wants or has
  tk_step,     \* the optimization loop: which of its accesses it is at
  tk_locks,    \* the config lock, the process mutex, the optimization-state
               \* lock: who holds each
  tk_cmd,      \* the command the command loop is handling
  tk_todo,     \* the locks that command still takes, in order
  tk_pending,  \* the commands the optimization loop still has to send
  tk_channel,  \* the command channel
  tk_auto_optimize,  \* OptimizationState.auto_optimize
  tk_child,    \* validator_process.is_some()
  tk_metrics   \* OptimizationState.current_metrics

tkVars ==
  <<tk_pc, tk_lock, tk_step, tk_locks, tk_cmd, tk_todo, tk_pending, tk_channel,
    tk_auto_optimize, tk_child, tk_metrics>>

\* The variables of the optimizer components further down.
restVars == <<adVars, cyVars, wtVars, mtVars, gmVars, tkVars>>

\* The variables of the other components, which the manager's command side
\* leaves alone.
otherVars == <<cfVars, smVars, lpVars, restVars>>

vars == <<pmVars, cfVars, smVars, lpVars, restVars>>

ChildIds == 1..MaxChildren
ReqIds == 1..MaxReq

NoChild == [ignoresTerm |-> FALSE, sigs |-> <<>>, state |-> "unborn"]

HotReloadParamsSet ==
  [rpc_threads : {None} \cup RpcThreadsVals,
   snapshot_interval : {None} \cup SnapshotIntervalVals,
   tpu_coalesce_ms : {None} \cup TpuCoalesceVals]

NoArg == [none |-> TRUE]

\* A signal delivered to a process: SIGKILL ends it; SIGTERM ends it unless it
\* ignores graceful termination; a process that has exited stays exited.
Deliver(child, sig) ==
  [child EXCEPT
     !.sigs = Append(@, sig),
     !.state = IF child.state = "alive"
                  /\ (sig = "SIGKILL" \/ (sig = "SIGTERM" /\ ~child.ignoresTerm))
               THEN "dead" ELSE @]

\* A stop that only asks: the graceful signal, and no forced kill.
stop_validator_graceful_only(proc, ch) ==
  IF proc = 0
  THEN [ch |-> ch, proc |-> 0]
  ELSE [ch |-> [ch EXCEPT ![proc] = Deliver(@, "SIGTERM")], proc |-> 0]

\* ProcessManager::stop_validator_internal on (held handle, processes): take the
\* handle; Child::kill (SIGKILL on Unix) the child; wait for it.
stop_validator_internal(proc, ch) ==
  IF proc = 0
  THEN [ch |-> ch, proc |-> 0]
  ELSE [ch |-> [ch EXCEPT ![proc] = Deliver(@, "SIGKILL")], proc |-> 0]

\* ProcessManager::start_validator_internal: spawn, and on success store the new
\* handle over whatever was held; on failure only print.
start_validator_internal(proc, ch, n, spawnOk, ign) ==
  IF spawnOk /\ n < MaxChildren
  THEN [ch |-> [ch EXCEPT ![n + 1] = [ignoresTerm |-> ign, sigs |-> <<>>, state |-> "alive"]],
        err |-> FALSE, n |-> n + 1, proc |-> n + 1]
  ELSE [ch |-> ch, err |-> TRUE, n |-> n, proc |-> proc]

\* A restart that spawns first and stops afterwards: the stop takes the handle
\* just stored.
restart_start_then_stop(proc, ch, n, spawnOk, ign) ==
  LET started == start_validator_internal(proc, ch, n, spawnOk, ign)
      stopped == stop_validator_internal(started.proc, started.ch)
  IN [ch |-> stopped.ch, err |-> started.err, n |-> started.n, proc |-> stopped.proc]

\* The RestartValidator handler: stop_validator_internal; sleep 2 s;
\* start_validator_internal.
restart_validator(proc, ch, n, spawnOk, ign) ==
  LET stopped == stop_validator_internal(proc, ch)
  IN start_validator_internal(stopped.proc, stopped.ch, n, spawnOk, ign)

\* The in-memory part of apply_hot_reload: each Some(..) parameter is stored.
HotReloadConfig(cfg, p) ==
  [incremental_snapshot_interval |->
     IF p.snapshot_interval # None THEN p.snapshot_interval
     ELSE cfg.incremental_snapshot_interval,
   rpc_threads |-> IF p.rpc_threads # None THEN p.rpc_threads ELSE cfg.rpc_threads,
   tpu_coalesce_ms |->
     IF p.tpu_coalesce_ms # None THEN p.tpu_coalesce_ms ELSE cfg.tpu_coalesce_ms]

\* send_signal_to_child(process, SIGUSR1), sent when rpc_threads is given.
HotReloadSignal(proc, ch, p) ==
  IF p.rpc_threads # None /\ proc # 0
  THEN [ch EXCEPT ![proc] = Deliver(@, "SIGUSR1")]
  ELSE ch

\* get_status_internal
StatusOf(proc) == IF proc # 0 THEN "RUNNING" ELSE "STOPPED"

\* ------------------------------------------- config file across restarts
NoFile == [exists |-> FALSE, text |-> <<>>]

FileOf(text) == [exists |-> TRUE, text |-> text]

NoSave == [how |-> "none", new |-> DefaultConfig, old |-> NoFile]

NotLoaded == [called |-> FALSE, ok |-> FALSE, value |-> DefaultConfig]

\* What ValidatorConfig::save leaves of the file when the process dies inside
\* it: the file as it was (before fs::write opened it), or created/truncated
\* and filled up to any point, the whole contents included.
CrashOutcomes(old, cfg) ==
  {old} \cup {FileOf(SubSeq(Serialize(cfg), 1, k)) : k \in 0..Len(Serialize(cfg))}

\* ValidatorConfig::save on the file: Ok with the contents written, or Err.
FileSaveOutcomes(old, cfg) ==
  {[file |-> FileOf(Serialize(cfg)), ok |-> TRUE], [file |-> old, ok |-> FALSE]}
    \cup {[file |-> FileOf(SubSeq(Serialize(cfg), 1, k)), ok |-> FALSE] :
            k \in 0..(Len(Serialize(cfg)) - 1)}

CFInit ==
  /\ file = NoFile
  /\ cf_pc = "down"
  /\ cf_mem = DefaultConfig
  /\ cf_save = NoSave
  /\ cf_loaded = NotLoaded

\* ValidatorConfig::load at process start, the file present: read and parse it.
load_existing ==
  /\ cf_pc # "up"
  /\ file.exists
  /\ cf_loaded' = [called |-> TRUE, ok |-> ParseOk(file.text),
                   value |-> IF ParseOk(file.text) THEN Parse(file.text) ELSE DefaultConfig]
  /\ cf_pc' = IF ParseOk(file.text) THEN "up" ELSE "failed"
  /\ cf_mem' = IF ParseOk(file.text) THEN Parse(file.text) ELSE cf_mem
  /\ UNCHANGED <<file, cf_save>>
  /\ UNCHANGED <<pmVars, smVars, lpVars, restVars>>

\* ValidatorConfig::load at process start, the file absent: save the default
\* configuration and return it.
load_default ==
  /\ cf_pc # "up"
  /\ ~file.exists
  /\ \E w \in FileSaveOutcomes(file, DefaultConfig) :
       /\ file' = w.file
       /\ cf_save' = [how |-> IF w.ok THEN "saved" ELSE "error",
                      new |-> DefaultConfig, old |-> file]
       /\ cf_loaded' = [called |-> TRUE, ok |-> w.ok, value |-> DefaultConfig]
       /\ cf_pc' = IF w.ok THEN "up" ELSE "failed"
       /\ cf_mem' = DefaultConfig
  /\ UNCHANGED <<pmVars, smVars, lpVars, restVars>>

\* The process dies inside load's save of the default configuration.
load_default_crash ==
  /\ cf_pc # "up"
  /\ ~file.exists
  /\ \E f \in CrashOutcomes(file, DefaultConfig) :
       /\ file' = f
       /\ cf_save' = [how |-> "crashed", new |-> DefaultConfig, old |-> file]
  /\ cf_loaded' = NotLoaded
  /\ cf_pc' = "down"
  /\ UNCHANGED cf_mem
  /\ UNCHANGED <<pmVars, smVars, lpVars, restVars>>

\* The running process changes its configuration and saves it
\* (apply_hot_reload's cfg.save()).
save ==
  /\ cf_pc = "up"
  /\ \E c \in Configs :
       \E w \in FileSaveOutcomes(file, c) :
         /\ cf_mem' = c
         /\ file' = w.file
         /\ cf_save' = [how |-> IF w.ok THEN "saved" ELSE "error", new |-> c,
                        old |-> file]
  /\ cf_loaded' = NotLoaded
  /\ UNCHANGED cf_pc
  /\ UNCHANGED <<pmVars, smVars, lpVars, restVars>>

\* The process dies inside that save.
save_crash ==
  /\ cf_pc = "up"
  /\ \E c \in Configs :
       \E f \in CrashOutcomes(file, c) :
         /\ file' = f
         /\ cf_save' = [how |-> "crashed", new |-> c, old |-> file]
  /\ cf_loaded' = NotLoaded
  /\ cf_pc' = "down"
  /\ UNCHANGED cf_mem
  /\ UNCHANGED <<pmVars, smVars, lpVars, restVars>>

\* The process exits.
process_exit ==
  /\ cf_pc = "up"
  /\ cf_pc' = "down"
  /\ UNCHANGED <<file, cf_mem, cf_save, cf_loaded>>
  /\ UNCHANGED <<pmVars, smVars, lpVars, restVars>>

CFNext ==
  \/ load_existing
  \/ load_default
  \/ load_default_crash
  \/ save
  \/ save_crash
  \/ process_exit

\* ------------------------------------------------------ metrics samplers
Endpoints == {"local", "remote"}

\* What an endpoint does with a request: nothing ("down"), an answer the
\* caller cannot use ("malformed": an RPC error or unparsable reply, or a
\* validator list without this validator), or the metrics ("ok").
Answers == {"down", "malformed", "ok"}

\* Vote success rates an endpoint may report.
RateVals == {80, 97}

EndpointStates == [answer : Answers, rate : RateVals]

Environments ==
  [cli_ok : BOOLEAN, eps : [Endpoints -> EndpointStates],
   keypairs_ok : BOOLEAN, load_ok : BOOLEAN]

\* PerformanceMetrics::baseline().vote_success_rate
MonitorBaselineRate == 0
\* get_current_vote_success's last line, Ok(85.0)
OptimizerBaselineRate == 85
\* get_validator_performance / parse_validator_output's baseline
RealBaselineRate == 85

Failure(attempts) == [attempts |-> attempts, ok |-> FALSE, rate |-> 0, src |-> "none"]

Success(src, rate, attempts) ==
  [attempts |-> attempts, ok |-> TRUE, rate |-> rate, src |-> src]

\* SolanaInterface::new(url, ..) followed by get_validator_metrics(): Ok with
\* the endpoint's metrics, or Err when any of its RPC calls fails.
get_validator_metrics(ep) == ep.answer = "ok"

\* The remote endpoint asked first.
try_remote_first(env) ==
  IF ~env.keypairs_ok
  THEN Failure(<<>>)
  ELSE IF get_validator_metrics(env.eps["remote"])
  THEN Success("remote", env.eps["remote"].rate, <<"remote">>)
  ELSE IF get_validator_metrics(env.eps["local"])
  THEN Success("local", env.eps["local"].rate, <<"remote", "local">>)
  ELSE Failure(<<"remote", "local">>)

\* monitor::try_get_real_metrics: read the keypairs; the local endpoint; on
\* its failure the testnet endpoint, whose result is the result.
try_get_real_metrics(env) ==
  IF ~env.keypairs_ok
  THEN Failure(<<>>)
  ELSE IF get_validator_metrics(env.eps["local"])
  THEN Success("local", env.eps["local"].rate, <<"local">>)
  ELSE IF get_validator_metrics(env.eps["remote"])
  THEN Success("remote", env.eps["remote"].rate, <<"local", "remote">>)
  ELSE Failure(<<"local", "remote">>)

\* monitor::get_current_metrics: load the config (an error returns), then
\* try_get_real_metrics, whose error becomes Ok(PerformanceMetrics::baseline()).
get_current_metrics(env) ==
  IF ~env.load_ok
  THEN Failure(<<>>)
  ELSE LET r == try_get_real_metrics(env)
       IN IF r.ok THEN r ELSE Success("baseline", MonitorBaselineRate, r.attempts)

\* optimizer::get_current_vote_success: the same order of endpoints, ending in
\* Ok(85.0) when neither gave metrics.
get_current_vote_success(env) ==
  IF ~env.load_ok \/ ~env.keypairs_ok
  THEN Failure(<<>>)
  ELSE IF get_validator_metrics(env.eps["local"])
  THEN Success("local", env.eps["local"].rate, <<"local">>)
  ELSE IF get_validator_metrics(env.eps["remote"])
  THEN Success("remote", env.eps["remote"].rate, <<"local", "remote">>)
  ELSE Success("baseline", OptimizerBaselineRate, <<"local", "remote">>)

\* RealOptimizer::parse_validator_output on the list an endpoint returned: the
\* line of this validator, or the baseline when it is not listed.
parse_validator_output(name, ep, attempts) ==
  IF ep.answer = "ok"
  THEN Success(name, ep.rate, attempts)
  ELSE Success("baseline", RealBaselineRate, attempts)

\* RealOptimizer::get_validator_performance: `solana validators` against the
\* local endpoint, then against testnet, then the baseline; an error only when
\* the solana binary cannot be run.
get_validator_performance(env) ==
  IF ~env.cli_ok
  THEN Failure(<<>>)
  ELSE IF env.eps["local"].answer # "down"
  THEN parse_validator_output("local", env.eps["local"], <<"local">>)
  ELSE IF env.eps["remote"].answer # "down"
  THEN parse_validator_output("remote", env.eps["remote"], <<"local", "remote">>)
  ELSE Success("baseline", RealBaselineRate, <<"local", "remote">>)

\* SolanaInterface::new: builds the RPC client for the url without contacting
\* it, and returns Ok.
SolanaInterface_new(ep) == TRUE

\* optimizer::auto_optimize_loop up to the first sample of the loop it starts:
\* load the config (`?`); with readable keypairs the interface for the local
\* endpoint, and the testnet one only when SolanaInterface::new fails; without
\* them generated keypairs on testnet; then SolanaInterface::auto_optimize_loop,
\* whose get_validator_metrics().await? returns the error of a failed sample.
optimizer_auto_optimize_loop(env) ==
  IF ~env.load_ok
  THEN Failure(<<>>)
  ELSE LET interface ==
             IF env.keypairs_ok
             THEN IF SolanaInterface_new("local") THEN "local" ELSE "remote"
             ELSE "remote"
       IN IF get_validator_metrics(env.eps[interface])
          THEN Success(interface, env.eps[interface].rate, <<interface>>)
          ELSE Failure(<<interface>>)

NoEnv ==
  [cli_ok |-> FALSE, eps |-> [e \in Endpoints |-> [answer |-> "down", rate |-> 80]],
   keypairs_ok |-> FALSE, load_ok |-> FALSE]

SMInit == sampled = [env |-> NoEnv, fn |-> "none", result |-> Failure(<<>>)]

Sample(fn, env, result) ==
  /\ sampled' = [env |-> env, fn |-> fn, result |-> result]
  /\ UNCHANGED <<pmVars, cfVars, lpVars, restVars>>

monitor_sample ==
  \E env \in Environments : Sample("get_current_metrics", env, get_current_metrics(env))

optimizer_sample ==
  \E env \in Environments :
    Sample("get_current_vote_success", env, get_current_vote_success(env))

real_optimizer_sample ==
  \E env \in Environments :
    Sample("get_validator_performance", env, get_validator_performance(env))

auto_optimizer_sample ==
  \E env \in Environments :
    Sample("auto_optimize_loop", env, optimizer_auto_optimize_loop(env))

SMNext ==
  \/ monitor_sample
  \/ optimizer_sample
  \/ real_optimizer_sample
  \/ auto_optimizer_sample

PMInit ==
  /\ config = DefaultConfig
  /\ disk = Serialize(DefaultConfig)
  /\ validator_process = 0
  /\ children = [c \in ChildIds |-> NoChild]
  /\ nSpawned = 0
  /\ queue = <<>>
  /\ nextReq = 1
  /\ replies = [r \in ReqIds |-> "none"]
  /\ failed = {}
  /\ auto_optimize = TRUE
  /\ status_line = "none"

\* command_tx.send(cmd).await?; Ok(()): the call returns Ok once the command is
\* in the channel.
Send(kind, arg) ==
  /\ nextReq <= MaxReq
  /\ Len(queue) < MaxQueue
  /\ queue' = Append(queue, [arg |-> arg, kind |-> kind, req |-> nextReq])
  /\ replies' = [replies EXCEPT ![nextReq] = "Ok"]
  /\ nextReq' = nextReq + 1
  /\ UNCHANGED <<config, disk, validator_process, children, nSpawned, failed,
                 auto_optimize, status_line>>
  /\ UNCHANGED otherVars

\* The public API.
start == Send("StartValidator", NoArg)

stop == Send("StopValidator", NoArg)

restart == Send("RestartValidator", NoArg)

enable_auto_optimize == Send("EnableAutoOptimize", NoArg)

hot_reload == \E p \in HotReloadParamsSet : Send("HotReload", p)

\* The ManagerCommand variants the command loop handles and no public method
\* sends: a holder of the sender enqueues them.
SendApplyConfig == \E c \in Configs : Send("ApplyConfig", c)

SendDisableAutoOptimize == Send("DisableAutoOptimize", NoArg)

SendGetStatus == Send("GetStatus", NoArg)

\* ProcessManager::apply_hot_reload: with a child held, store the parameters,
\* signal the child, save the configuration and drop the save's Result.
apply_hot_reload(cmd) ==
  IF validator_process # 0
  THEN \E w \in SaveOutcomes(disk, HotReloadConfig(config, cmd.arg)) :
         /\ config' = HotReloadConfig(config, cmd.arg)
         /\ children' = HotReloadSignal(validator_process, children, cmd.arg)
         /\ disk' = w.text
         /\ failed' = IF w.ok THEN failed ELSE failed \cup {cmd.req}
         /\ UNCHANGED <<validator_process, nSpawned, auto_optimize, status_line>>
  ELSE UNCHANGED <<config, disk, validator_process, children, nSpawned, failed,
                   auto_optimize, status_line>>

\* One iteration of start_command_loop: receive a command and handle it.
HandleCommand(cmd) ==
  LET stopped == stop_validator_internal(validator_process, children)
      mark(err) == IF err THEN failed \cup {cmd.req} ELSE failed
  IN
  CASE cmd.kind = "StartValidator" ->
         \E spawnOk \in BOOLEAN, ign \in BOOLEAN :
           LET started == start_validator_internal(validator_process, children,
                                                   nSpawned, spawnOk, ign)
           IN /\ validator_process' = started.proc
              /\ children' = started.ch
              /\ nSpawned' = started.n
              /\ failed' = mark(started.err)
              /\ UNCHANGED <<config, disk, auto_optimize, status_line>>
    [] cmd.kind = "StopValidator" ->
         /\ validator_process' = stopped.proc
         /\ children' = stopped.ch
         /\ UNCHANGED <<config, disk, nSpawned, failed, auto_optimize, status_line>>
    [] cmd.kind = "RestartValidator" ->
         \E spawnOk \in BOOLEAN, ign \in BOOLEAN :
           LET started == restart_validator(validator_process, children,
                                            nSpawned, spawnOk, ign)
           IN /\ validator_process' = started.proc
              /\ children' = started.ch
              /\ nSpawned' = started.n
              /\ failed' = mark(started.err)
              /\ UNCHANGED <<config, disk, auto_optimize, status_line>>
    [] cmd.kind = "ApplyConfig" ->
         /\ config' = cmd.arg
         /\ UNCHANGED <<disk, validator_process, children, nSpawned, failed,
                        auto_optimize, status_line>>
    [] cmd.kind = "EnableAutoOptimize" ->
         /\ auto_optimize' = TRUE
         /\ UNCHANGED <<config, disk, validator_process, children, nSpawned, failed,
                        status_line>>
    [] cmd.kind = "DisableAutoOptimize" ->
         /\ auto_optimize' = FALSE
         /\ UNCHANGED <<config, disk, validator_process, children, nSpawned, failed,
                        status_line>>
    [] cmd.kind = "HotReload" ->
         apply_hot_reload(cmd)
    [] cmd.kind = "GetStatus" ->
         /\ status_line' = StatusOf(validator_process)
         /\ UNCHANGED <<config, disk, validator_process, children, nSpawned, failed,
                        auto_optimize>>

start_command_loop ==
  /\ queue # <<>>
  /\ HandleCommand(Head(queue))
  /\ queue' = Tail(queue)
  /\ UNCHANGED <<nextReq, replies>>
  /\ UNCHANGED otherVars

\* A validator process exits on its own.
ChildExits ==
  \E c \in ChildIds :
    /\ children[c].state = "alive"
    /\ children' = [children EXCEPT ![c].state = "dead"]
    /\ UNCHANGED <<config, disk, validator_process, nSpawned, queue, nextReq,
                   replies, failed, auto_optimize, status_line>>
    /\ UNCHANGED otherVars

\* validator::stop (the CLI's `stop`): kill -TERM every running process named
\* solana-validator, and nothing more.
validator_stop ==
  /\ nextReq <= MaxReq
  /\ \E c \in ChildIds : children[c].state = "alive"
  /\ children' = [c \in ChildIds |->
                    IF children[c].state = "alive"
                    THEN Deliver(children[c], "SIGTERM") ELSE children[c]]
  /\ replies' = [replies EXCEPT ![nextReq] = "Ok"]
  /\ nextReq' = nextReq + 1
  /\ UNCHANGED <<config, disk, validator_process, nSpawned, queue, failed,
                 auto_optimize, status_line>>
  /\ UNCHANGED otherVars

\* ---------------------------------------- the manager's periodic loops
\* Seconds the model's clock runs for.
MaxTime == 120

\* interval(Duration::from_secs(5)) of the monitoring loop
MonitorInterval == 5
\* interval(Duration::from_secs(30)) of the optimization loop
OptimizeInterval == 30
\* last_optimization.elapsed() > Duration::from_secs(60)
OptimizeCooldown == 60

Loops == {"monitoring", "optimization"}

Interval == [monitoring |-> MonitorInterval, optimization |-> OptimizeInterval]

\* impl Default for OptimizationState: current_metrics
ZeroMetrics ==
  [cpu_usage |-> 0, memory_usage |-> 0, skip_rate |-> 0, vote_success_rate |-> 0]

\* A metrics source that reports memory above the restart threshold.
fetch_metrics_memory_high ==
  [cpu_usage |-> 45, memory_usage |-> 85, skip_rate |-> 6, vote_success_rate |-> 92]

\* ProcessManager::fetch_validator_metrics: always Ok with these values.
fetch_validator_metrics ==
  [cpu_usage |-> 45, memory_usage |-> 60, skip_rate |-> 6, vote_success_rate |-> 92]

HotReloadOnly(rpc, snap, tpu) ==
  [arg |-> [rpc_threads |-> rpc, snapshot_interval |-> snap, tpu_coalesce_ms |-> tpu],
   kind |-> "HotReload", req |-> 0]

\* ProcessManager::calculate_optimizations, as the commands the optimization
\* loop sends for them, in order.
calculate_optimizations(m) ==
  (IF m.vote_success_rate < 90 THEN <<HotReloadOnly(None, None, 1)>> ELSE <<>>)
    \o (IF m.skip_rate > 10 THEN <<HotReloadOnly(32, None, None)>> ELSE <<>>)
    \o (IF m.cpu_usage > 80 THEN <<HotReloadOnly(None, 200, None)>> ELSE <<>>)
    \o (IF m.memory_usage > 80
        THEN <<[arg |-> NoArg, kind |-> "RestartValidator", req |-> 0]>> ELSE <<>>)

LPInit ==
  /\ now = 0
  /\ shutdown_at = None
  /\ next_tick = [l \in Loops |-> 0]
  /\ last_iter = [l \in Loops |-> None]
  /\ current_metrics = ZeroMetrics
  /\ last_optimization = 0
  /\ cycle_started = None

\* ticker.tick().await returns: the deadline has come; the next one is a period
\* later.
TickerFires(l) ==
  /\ now >= next_tick[l]
  /\ next_tick' = [next_tick EXCEPT ![l] = @ + Interval[l]]
  /\ last_iter' = [last_iter EXCEPT ![l] = now]

\* One iteration of start_monitoring_loop: with a child handle held, fetch the
\* metrics and store them.
start_monitoring_loop ==
  /\ TickerFires("monitoring")
  /\ current_metrics' = IF validator_process # 0 THEN fetch_validator_metrics
                        ELSE current_metrics
  /\ UNCHANGED <<now, shutdown_at, last_optimization, cycle_started>>
  /\ UNCHANGED <<pmVars, cfVars, smVars, restVars>>

\* Seconds after its deadline a tick may come, and a cycle may end.
MaxLate == 2

\* A loop that also starts a cycle when exactly the cooldown has elapsed.
should_optimize_at_cooldown(auto, elapsed) ==
  auto /\ elapsed >= OptimizeCooldown

\* state.auto_optimize && state.last_optimization.elapsed() > 60 s
should_optimize(auto, elapsed) ==
  auto /\ elapsed > OptimizeCooldown

\* One iteration of start_optimization_loop: when auto_optimize is set and more
\* than the cooldown has elapsed (`late`: the tick came that long after its
\* deadline), send the commands of calculate_optimizations and restart the
\* cooldown at the instant the cycle ends (`ended` after the deadline).
start_optimization_loop ==
  /\ TickerFires("optimization")
  /\ \E late \in 0..MaxLate, ended \in 0..MaxLate :
       LET started == now + late
           optimizations == calculate_optimizations(current_metrics)
       IN IF should_optimize(auto_optimize, started - last_optimization)
          THEN /\ late <= ended
               /\ Len(queue) + Len(optimizations) <= MaxQueue
               /\ queue' = queue \o optimizations
               /\ cycle_started' = started
               /\ last_optimization' = now + ended
          ELSE UNCHANGED <<queue, last_optimization, cycle_started>>
  /\ UNCHANGED <<now, shutdown_at, current_metrics>>
  /\ UNCHANGED <<config, disk, validator_process, children, nSpawned, nextReq,
                 replies, failed, auto_optimize, status_line>>
  /\ UNCHANGED <<cfVars, smVars, restVars>>

\* Time passes, once every ticker whose deadline has come has fired.
TimePasses ==
  /\ now + MonitorInterval <= MaxTime
  /\ \A l \in Loops : now < next_tick[l]
  /\ now' = now + MonitorInterval
  /\ UNCHANGED <<shutdown_at, next_tick, last_iter, current_metrics, last_optimization,
                 cycle_started>>
  /\ UNCHANGED <<pmVars, cfVars, smVars, restVars>>

\* The caller of ProcessManager::run drops its future: the JoinHandles of the
\* three tasks are dropped with it, which detaches the tasks.
DropRun ==
  /\ shutdown_at = None
  /\ shutdown_at' = now
  /\ UNCHANGED <<now, next_tick, last_iter, current_metrics, last_optimization,
                 cycle_started>>
  /\ UNCHANGED <<pmVars, cfVars, smVars, restVars>>

LPNext ==
  \/ start
  \/ start_command_loop
  \/ start_monitoring_loop
  \/ start_optimization_loop
  \/ TimePasses
  \/ DropRun

\* The loops with auto_optimize switched off and on.
CDNext ==
  \/ enable_auto_optimize
  \/ SendDisableAutoOptimize
  \/ start_command_loop
  \/ start_monitoring_loop
  \/ start_optimization_loop
  \/ TimePasses

\* The loops of a manager asked to start its validator, while run's caller
\* keeps its future.
ATNext ==
  \/ start
  \/ start_command_loop
  \/ start_monitoring_loop
  \/ start_optimization_loop
  \/ TimePasses

\* ------------------------------------------- the advisors and their state
\* blockchain::ValidatorMetrics: the four fields analyze_performance_gaps reads.
VoteVals == {80, 85, 90, 97}
SkipVals == {2, 3, 5, 12}
LagVals == {10, 30, 31}
LatencyVals == {30, 50, 51}

GapMetrics ==
  [network_latency_ms : LatencyVals, skip_rate : SkipVals, vote_lag : LagVals,
   vote_success_rate : VoteVals]

\* #[derive(Default)] of blockchain::ValidatorMetrics
DefaultMetrics ==
  [network_latency_ms |-> 0, skip_rate |-> 0, vote_lag |-> 0, vote_success_rate |-> 0]

\* An advisor of one rule: only the first threshold violated is reported.
analyze_first_gap_only(self, metrics) ==
  IF metrics.vote_success_rate < 97 THEN <<"VoteLatencyReduction">>
  ELSE IF metrics.skip_rate > 3 THEN <<"ThreadingOptimization">>
  ELSE IF metrics.vote_lag > 30 THEN <<"NetworkLatencyOptimization">>
  ELSE IF metrics.network_latency_ms > 50 THEN <<"QUICProtocolOptimization">>
  ELSE <<>>

\* SolanaInterface::analyze_performance_gaps(&self, metrics); `self` is the
\* interface's state, which the function does not read.
analyze_performance_gaps(self, metrics) ==
  (IF metrics.vote_success_rate < 97
   THEN IF metrics.vote_success_rate < 85
        THEN <<"AggressiveVoteOptimization">> ELSE <<"VoteLatencyReduction">>
   ELSE <<>>)
    \o (IF metrics.skip_rate > 3
        THEN IF metrics.skip_rate > 10
             THEN <<"AggressiveResourceOptimization">> ELSE <<"ThreadingOptimization">>
        ELSE <<>>)
    \o (IF metrics.vote_lag > 30 THEN <<"NetworkLatencyOptimization">> ELSE <<>>)
    \o (IF metrics.network_latency_ms > 50 THEN <<"QUICProtocolOptimization">> ELSE <<>>)

\* real_optimizer::PerformanceSnapshot: the fields the strategies read.
PerformanceSnapshots ==
  [cpu_usage : {45, 90}, memory_usage_mb : {4000, 8000},
   network_latency_ms : {45, 120}, skip_rate : {3, 12}, vote_success_rate : {90, 97}]

\* real_optimizer::OptimizedConfig: the fields update_config_file can assign,
\* and enable_quic, which it cannot.
OptimizedConfigs ==
  [accounts_db_cache_mb : {2048, 4096}, enable_quic : BOOLEAN,
   incremental_snapshot_interval : SnapshotIntervalVals,
   rpc_threads : RpcThreadsVals, tpu_coalesce_ms : TpuCoalesceVals]

\* impl Default for OptimizedConfig
DefaultOptimizedConfig ==
  [accounts_db_cache_mb |-> 4096, enable_quic |-> TRUE,
   incremental_snapshot_interval |-> 100, rpc_threads |-> 32, tpu_coalesce_ms |-> 1]

ConfigUpdate(parameter, old_value, new_value, requires_restart) ==
  [new_value |-> new_value, old_value |-> old_value, parameter |-> parameter,
   requires_restart |-> requires_restart]

\* The four strategies, in the order OptimizationEngine::new lists them.
VoteSuccessOptimizer(snapshot) ==
  IF snapshot.vote_success_rate < 95
  THEN <<ConfigUpdate("tpu_coalesce_ms", "5", "1", FALSE)>> ELSE <<>>

SkipRateOptimizer(snapshot) ==
  IF snapshot.skip_rate > 5
  THEN <<ConfigUpdate("rpc_threads", "8", "32", TRUE)>> ELSE <<>>

LatencyOptimizer(snapshot) ==
  IF snapshot.network_latency_ms > 50
  THEN <<ConfigUpdate("enable_quic", "false", "true", TRUE)>> ELSE <<>>

ResourceOptimizer(snapshot) ==
  IF snapshot.cpu_usage > 80
  THEN <<ConfigUpdate("snapshot_interval", "100", "200", FALSE)>>
  ELSE IF snapshot.memory_usage_mb > 7000
  THEN <<ConfigUpdate("cache_size", "4096", "2048", TRUE)>> ELSE <<>>

\* An engine that stops advising a smaller cache once the cache is small.
analyze_reading_config(self, snapshot) ==
  VoteSuccessOptimizer(snapshot) \o SkipRateOptimizer(snapshot)
    \o LatencyOptimizer(snapshot)
    \o (IF self.accounts_db_cache_mb = 2048 /\ snapshot.cpu_usage <= 80
        THEN <<>> ELSE ResourceOptimizer(snapshot))

\* OptimizationEngine::analyze_and_optimize; `self` is the optimizer's current
\* configuration, which no strategy reads.
analyze_and_optimize(self, snapshot) ==
  VoteSuccessOptimizer(snapshot) \o SkipRateOptimizer(snapshot)
    \o LatencyOptimizer(snapshot) \o ResourceOptimizer(snapshot)

\* str::parse::<u32>() on the values the updates carry: the number, or None
\* for a string that is no number.
ParseU32(str) ==
  CASE str = "1" -> 1
    [] str = "5" -> 5
    [] str = "8" -> 8
    [] str = "32" -> 32
    [] str = "100" -> 100
    [] str = "200" -> 200
    [] str = "2048" -> 2048
    [] str = "4096" -> 4096
    [] OTHER -> None

\* An update_config_file whose cache_size arm assigns rpc_threads.
update_config_file_wrong_arm(cfg, update, writeOk) ==
  LET v == ParseU32(update.new_value)
      assigned ==
        CASE update.parameter = "rpc_threads" -> [cfg EXCEPT !.rpc_threads = v]
          [] update.parameter = "tpu_coalesce_ms" -> [cfg EXCEPT !.tpu_coalesce_ms = v]
          [] update.parameter = "snapshot_interval" ->
               [cfg EXCEPT !.incremental_snapshot_interval = v]
          [] update.parameter = "cache_size" -> [cfg EXCEPT !.rpc_threads = v]
          [] OTHER -> cfg
  IN [new |-> assigned, ok |-> writeOk,
      state |-> IF writeOk THEN "complete" ELSE "truncated"]

\* RealOptimizer::update_config_file on (current_config, update), the write of
\* validator-optimized.json succeeding or not: assign the field the parameter
\* names (the value parsed; a value that is no number returns Err before the
\* assignment), then write the file.
update_config_file(cfg, update, writeOk) ==
  LET v == ParseU32(update.new_value)
      known == update.parameter
                 \in {"rpc_threads", "tpu_coalesce_ms", "snapshot_interval", "cache_size"}
      assigned ==
        CASE update.parameter = "rpc_threads" -> [cfg EXCEPT !.rpc_threads = v]
          [] update.parameter = "tpu_coalesce_ms" -> [cfg EXCEPT !.tpu_coalesce_ms = v]
          [] update.parameter = "snapshot_interval" ->
               [cfg EXCEPT !.incremental_snapshot_interval = v]
          [] update.parameter = "cache_size" -> [cfg EXCEPT !.accounts_db_cache_mb = v]
          [] OTHER -> cfg
  IN IF known /\ v = None
     THEN [new |-> cfg, ok |-> FALSE, state |-> "untouched"]
     ELSE [new |-> assigned, ok |-> writeOk,
           state |-> IF writeOk THEN "complete" ELSE "truncated"]

NoCall == [arg |-> NoArg, fn |-> "none", result |-> <<>>, self |-> NoArg]

ADInit ==
  /\ metrics_cache = DefaultMetrics
  /\ current_config = DefaultOptimizedConfig
  /\ optimized_json = [state |-> "absent", value |-> DefaultOptimizedConfig]
  /\ last_call = NoCall

\* Metrics an interface has fetched and cached.
CachedSamples ==
  {m \in GapMetrics : m.vote_lag = 10 /\ m.network_latency_ms = 30
                        /\ m.skip_rate = 2 /\ m.vote_success_rate \in {80, 97}}

\* SolanaInterface::get_validator_metrics, Ok: the metrics are cached.
cache_metrics ==
  /\ \E m \in CachedSamples : metrics_cache' = m
  /\ UNCHANGED <<current_config, optimized_json, last_call>>
  /\ UNCHANGED <<pmVars, cfVars, smVars, lpVars, cyVars, wtVars, mtVars, gmVars, tkVars>>

\* A call of analyze_performance_gaps on any metrics.
advise_gaps ==
  /\ \E m \in GapMetrics :
       last_call' = [arg |-> m, fn |-> "analyze_performance_gaps",
                     result |-> analyze_performance_gaps(metrics_cache, m),
                     self |-> metrics_cache]
  /\ UNCHANGED <<metrics_cache, current_config, optimized_json>>
  /\ UNCHANGED <<pmVars, cfVars, smVars, lpVars, cyVars, wtVars, mtVars, gmVars, tkVars>>

\* A call of analyze_and_optimize on any snapshot.
advise_engine ==
  /\ \E snap \in PerformanceSnapshots :
       last_call' = [arg |-> snap, fn |-> "analyze_and_optimize",
                     result |-> analyze_and_optimize(current_config, snap),
                     self |-> current_config]
  /\ UNCHANGED <<metrics_cache, current_config, optimized_json>>
  /\ UNCHANGED <<pmVars, cfVars, smVars, lpVars, cyVars, wtVars, mtVars, gmVars, tkVars>>

\* The updates the strategies can produce.
EngineUpdates ==
  UNION {{analyze_and_optimize(DefaultOptimizedConfig, snap)[i] :
            i \in 1..Len(analyze_and_optimize(DefaultOptimizedConfig, snap))} :
           snap \in PerformanceSnapshots}

\* A call of update_config_file with an update of the engine.
apply_update ==
  /\ \E u \in EngineUpdates, writeOk \in BOOLEAN :
       LET r == update_config_file(current_config, u, writeOk)
       IN /\ current_config' = r.new
          /\ optimized_json' =
               IF r.state = "untouched" THEN optimized_json
               ELSE [state |-> r.state, value |-> r.new]
          /\ last_call' = [arg |-> u, fn |-> "update_config_file",
                           result |-> [new |-> r.new, ok |-> r.ok],
                           self |-> current_config]
  /\ UNCHANGED metrics_cache
  /\ UNCHANGED <<pmVars, cfVars, smVars, lpVars, cyVars, wtVars, mtVars, gmVars, tkVars>>

ADNext ==
  \/ cache_metrics
  \/ advise_gaps
  \/ advise_engine
  \/ apply_update

\* ------------------------------------------- the manager's three tasks
\* Slots of the command channel in the model (mpsc::channel(100) in the code).
MaxChannel == 1

Tasks == {"command", "monitoring", "optimization"}

FreeLock == [readers |-> {}, writer |-> "none"]

CanAcquire(lock, mode) ==
  IF mode = "read" THEN lock.writer = "none"
  ELSE lock.writer = "none" /\ lock.readers = {}

acquire(lock, task, mode) ==
  IF mode = "read" THEN [lock EXCEPT !.readers = @ \cup {task}]
  ELSE [lock EXCEPT !.writer = task]

\* A guard that is never dropped.
leak_guard(lock, task) == lock

\* The guard of the task goes out of scope.
drop_guard(lock, task) ==
  [readers |-> lock.readers \ {task},
   writer |-> IF lock.writer = task THEN "none" ELSE lock.writer]

NoCmd == [arg |-> NoArg, kind |-> "none", req |-> 0]

\* The locks the handler of a command takes, in order. The process mutex is
\* held for one statement; a config guard lives to the end of the handler.
LocksFor(kind) ==
  CASE kind = "StartValidator" -> <<<<"config", "read">>, <<"process", "write">>>>
    [] kind = "StopValidator" -> <<<<"process", "write">>>>
    [] kind = "RestartValidator" ->
         <<<<"process", "write">>, <<"config", "read">>, <<"process", "write">>>>
    [] kind = "ApplyConfig" -> <<<<"config", "write">>>>
    [] kind = "EnableAutoOptimize" -> <<<<"state", "write">>>>
    [] kind = "DisableAutoOptimize" -> <<<<"state", "write">>>>
    [] kind = "HotReload" ->
         <<<<"process", "write">>, <<"config", "write">>, <<"process", "write">>>>
    [] kind = "GetStatus" -> <<<<"process", "write">>, <<"state", "read">>>>

Goes(task, pc, lock) ==
  /\ tk_pc' = [tk_pc EXCEPT ![task] = pc]
  /\ tk_lock' = [tk_lock EXCEPT ![task] = lock]

\* ---- start_monitoring_loop, statement by statement
monitoring_tick ==
  /\ tk_pc["monitoring"] = "tick"
  /\ Goes("monitoring", "wants", "process")
  /\ UNCHANGED <<tk_step, tk_locks, tk_cmd, tk_todo, tk_pending, tk_channel,
                 tk_auto_optimize, tk_child, tk_metrics>>
  /\ UNCHANGED <<pmVars, cfVars, smVars, lpVars, adVars, cyVars, wtVars, mtVars, gmVars>>

\* process.lock(), and state.write().await
monitoring_acquire ==
  /\ tk_pc["monitoring"] = "wants"
  /\ CanAcquire(tk_locks[tk_lock["monitoring"]], "write")
  /\ tk_locks' = [tk_locks EXCEPT ![tk_lock["monitoring"]] = acquire(@, "monitoring", "write")]
  /\ Goes("monitoring", "has", tk_lock["monitoring"])
  /\ UNCHANGED <<tk_step, tk_cmd, tk_todo, tk_pending, tk_channel, tk_auto_optimize,
                 tk_child, tk_metrics>>
  /\ UNCHANGED <<pmVars, cfVars, smVars, lpVars, adVars, cyVars, wtVars, mtVars, gmVars>>

\* is_running is computed and the mutex guard dropped; or the metrics are
\* stored and the state guard dropped.
monitoring_release ==
  /\ tk_pc["monitoring"] = "has"
  /\ tk_locks' = [tk_locks EXCEPT ![tk_lock["monitoring"]] = drop_guard(@, "monitoring")]
  /\ IF tk_lock["monitoring"] = "process"
     THEN /\ IF tk_child
             THEN Goes("monitoring", "wants", "state")
             ELSE Goes("monitoring", "tick", "none")
          /\ UNCHANGED tk_metrics
     ELSE /\ tk_metrics' = fetch_validator_metrics
          /\ Goes("monitoring", "tick", "none")
  /\ UNCHANGED <<tk_step, tk_cmd, tk_todo, tk_pending, tk_channel, tk_auto_optimize,
                 tk_child>>
  /\ UNCHANGED <<pmVars, cfVars, smVars, lpVars, adVars, cyVars, wtVars, mtVars, gmVars>>

MonitoringTask == monitoring_tick \/ monitoring_acquire \/ monitoring_release

\* ---- start_optimization_loop, statement by statement. Its accesses: 1 reads
\* should_optimize, 2 reads the metrics, 3 sends the commands, 4 writes
\* last_optimization.
optimization_tick ==
  /\ tk_pc["optimization"] = "tick"
  /\ Goes("optimization", "wants", "state")
  /\ tk_step' = 1
  /\ UNCHANGED <<tk_locks, tk_cmd, tk_todo, tk_pending, tk_channel, tk_auto_optimize,
                 tk_child, tk_metrics>>
  /\ UNCHANGED <<pmVars, cfVars, smVars, lpVars, adVars, cyVars, wtVars, mtVars, gmVars>>

\* state.read().await, state.write().await
optimization_acquire ==
  /\ tk_pc["optimization"] = "wants"
  /\ tk_lock["optimization"] = "state"
  /\ LET mode == IF tk_step = 4 THEN "write" ELSE "read"
     IN /\ CanAcquire(tk_locks["state"], mode)
        /\ tk_locks' = [tk_locks EXCEPT !["state"] = acquire(@, "optimization", mode)]
  /\ Goes("optimization", "has", "state")
  /\ UNCHANGED <<tk_step, tk_cmd, tk_todo, tk_pending, tk_channel, tk_auto_optimize,
                 tk_child, tk_metrics>>
  /\ UNCHANGED <<pmVars, cfVars, smVars, lpVars, adVars, cyVars, wtVars, mtVars, gmVars>>

\* The block under the guard ends. `cooled`: more than the cooldown has
\* elapsed since last_optimization, which the last block sets to the present.
optimization_release ==
  /\ tk_pc["optimization"] = "has"
  /\ tk_lock["optimization"] = "state"
  /\ tk_locks' = [tk_locks EXCEPT !["state"] = drop_guard(@, "optimization")]
  /\ CASE tk_step = 1 ->
            /\ \E cooled \in BOOLEAN :
                 IF tk_auto_optimize /\ cooled
                 THEN Goes("optimization", "wants", "state") /\ tk_step' = 2
                 ELSE Goes("optimization", "tick", "none") /\ tk_step' = 0
            /\ UNCHANGED tk_pending
       [] tk_step = 2 ->
            /\ tk_pending' = calculate_optimizations(tk_metrics)
            /\ IF tk_pending' = <<>>
               THEN Goes("optimization", "wants", "state") /\ tk_step' = 4
               ELSE Goes("optimization", "wants", "channel") /\ tk_step' = 3
       [] tk_step = 4 ->
            /\ Goes("optimization", "tick", "none")
            /\ tk_step' = 0
            /\ UNCHANGED tk_pending
  /\ UNCHANGED <<tk_cmd, tk_todo, tk_channel, tk_auto_optimize, tk_child, tk_metrics>>
  /\ UNCHANGED <<pmVars, cfVars, smVars, lpVars, adVars, cyVars, wtVars, mtVars, gmVars>>

\* tx.send(..).await: the command enters the channel once it has a free slot.
optimization_send ==
  /\ tk_pc["optimization"] = "wants"
  /\ tk_lock["optimization"] = "channel"
  /\ Len(tk_channel) < MaxChannel
  /\ tk_channel' = Append(tk_channel, Head(tk_pending))
  /\ tk_pending' = Tail(tk_pending)
  /\ Goes("optimization", "has", "channel")
  /\ UNCHANGED <<tk_step, tk_locks, tk_cmd, tk_todo, tk_auto_optimize, tk_child,
                 tk_metrics>>
  /\ UNCHANGED <<pmVars, cfVars, smVars, lpVars, adVars, cyVars, wtVars, mtVars, gmVars>>

\* The send has returned: on to the next command, or to the final write.
optimization_sent ==
  /\ tk_pc["optimization"] = "has"
  /\ tk_lock["optimization"] = "channel"
  /\ IF tk_pending = <<>>
     THEN Goes("optimization", "wants", "state") /\ tk_step' = 4
     ELSE Goes("optimization", "wants", "channel") /\ UNCHANGED tk_step
  /\ UNCHANGED <<tk_locks, tk_cmd, tk_todo, tk_pending, tk_channel, tk_auto_optimize,
                 tk_child, tk_metrics>>
  /\ UNCHANGED <<pmVars, cfVars, smVars, lpVars, adVars, cyVars, wtVars, mtVars, gmVars>>

OptimizationTask ==
  \/ optimization_tick
  \/ optimization_acquire
  \/ optimization_release
  \/ optimization_send
  \/ optimization_sent

\* ---- start_command_loop, statement by statement
\* owned_rx.recv().await returns a command.
command_recv ==
  /\ tk_pc["command"] = "tick"
  /\ tk_channel # <<>>
  /\ tk_cmd' = Head(tk_channel)
  /\ tk_channel' = Tail(tk_channel)
  /\ tk_todo' = LocksFor(Head(tk_channel).kind)
  /\ Goes("command", "wants", LocksFor(Head(tk_channel).kind)[1][1])
  /\ UNCHANGED <<tk_step, tk_locks, tk_pending, tk_auto_optimize, tk_child, tk_metrics>>
  /\ UNCHANGED <<pmVars, cfVars, smVars, lpVars, adVars, cyVars, wtVars, mtVars, gmVars>>

command_acquire ==
  /\ tk_pc["command"] = "wants"
  /\ CanAcquire(tk_locks[tk_lock["command"]], Head(tk_todo)[2])
  /\ tk_locks' = [tk_locks EXCEPT ![tk_lock["command"]] = acquire(@, "command", Head(tk_todo)[2])]
  /\ Goes("command", "has", tk_lock["command"])
  /\ UNCHANGED <<tk_step, tk_cmd, tk_todo, tk_pending, tk_channel, tk_auto_optimize,
                 tk_child, tk_metrics>>
  /\ UNCHANGED <<pmVars, cfVars, smVars, lpVars, adVars, cyVars, wtVars, mtVars, gmVars>>

\* The statement under the lock is done. With more locks to take, the guard
\* is dropped (a config guard stays) and the next lock is requested.
command_next_lock ==
  /\ tk_pc["command"] = "has"
  /\ Len(tk_todo) > 1
  /\ tk_locks' = IF tk_lock["command"] = "config" THEN tk_locks
                 ELSE [tk_locks EXCEPT ![tk_lock["command"]] = drop_guard(@, "command")]
  /\ tk_todo' = Tail(tk_todo)
  /\ Goes("command", "wants", tk_todo[2][1])
  /\ UNCHANGED <<tk_step, tk_cmd, tk_pending, tk_channel, tk_auto_optimize, tk_child,
                 tk_metrics>>
  /\ UNCHANGED <<pmVars, cfVars, smVars, lpVars, adVars, cyVars, wtVars, mtVars, gmVars>>

\* What the handler of a command does to the state the three tasks read:
\* whether a child handle is held, and auto_optimize.
HandlerEffect(cmd) ==
  CASE cmd.kind = "StartValidator" ->
         /\ \E spawnOk \in BOOLEAN : tk_child' = (spawnOk \/ tk_child)
         /\ UNCHANGED tk_auto_optimize
    [] cmd.kind = "StopValidator" ->
         /\ tk_child' = FALSE
         /\ UNCHANGED tk_auto_optimize
    [] cmd.kind = "RestartValidator" ->
         /\ \E spawnOk \in BOOLEAN : tk_child' = spawnOk
         /\ UNCHANGED tk_auto_optimize
    [] cmd.kind = "EnableAutoOptimize" ->
         /\ tk_auto_optimize' = TRUE
         /\ UNCHANGED tk_child
    [] cmd.kind = "DisableAutoOptimize" ->
         /\ tk_auto_optimize' = FALSE
         /\ UNCHANGED tk_child
    [] cmd.kind \in {"ApplyConfig", "GetStatus", "HotReload"} ->
         UNCHANGED <<tk_child, tk_auto_optimize>>

\* The handler returns under its last lock: the command has taken effect and
\* every guard is dropped.
command_done ==
  /\ tk_pc["command"] = "has"
  /\ Len(tk_todo) = 1
  /\ HandlerEffect(tk_cmd)
  /\ tk_locks' = [l \in DOMAIN tk_locks |-> drop_guard(tk_locks[l], "command")]
  /\ tk_todo' = <<>>
  /\ tk_cmd' = NoCmd
  /\ Goes("command", "tick", "none")
  /\ UNCHANGED <<tk_step, tk_pending, tk_channel, tk_metrics>>
  /\ UNCHANGED <<pmVars, cfVars, smVars, lpVars, adVars, cyVars, wtVars, mtVars, gmVars>>

CommandTask == command_recv \/ command_acquire \/ command_next_lock \/ command_done

TKInit ==
  /\ tk_pc = [t \in Tasks |-> "tick"]
  /\ tk_lock = [t \in Tasks |-> "none"]
  /\ tk_step = 0
  /\ tk_locks = [config |-> FreeLock, process |-> FreeLock, state |-> FreeLock]
  /\ tk_cmd = NoCmd
  /\ tk_todo = <<>>
  /\ tk_pending = <<>>
  /\ tk_channel = <<>>
  /\ tk_auto_optimize = TRUE
  /\ tk_child = FALSE
  /\ tk_metrics = ZeroMetrics

\* A caller of start or enable_auto_optimize, or a holder of the sender with a
\* DisableAutoOptimize: its command enters the channel once it has a free slot.
caller_sends ==
  /\ Len(tk_channel) < MaxChannel
  /\ \E kind \in {"DisableAutoOptimize", "EnableAutoOptimize", "StartValidator"} :
       tk_channel' = Append(tk_channel, [arg |-> NoArg, kind |-> kind, req |-> 0])
  /\ UNCHANGED <<tk_pc, tk_lock, tk_step, tk_locks, tk_cmd, tk_todo, tk_pending,
                 tk_auto_optimize, tk_child, tk_metrics>>
  /\ UNCHANGED <<pmVars, cfVars, smVars, lpVars, adVars, cyVars, wtVars, mtVars, gmVars>>

TKNext ==
  \/ caller_sends
  \/ MonitoringTask
  \/ OptimizationTask
  \/ CommandTask

\* tokio runs every task that is ready, and its locks and channel serve their
\* waiters in order: a task whose next statement is possible again and again
\* executes it. The subprocesses a handler waits for are taken to exit (SpecWait
\* has the waits that do not return).
TKFairness ==
  /\ SF_vars(MonitoringTask)
  /\ SF_vars(OptimizationTask)
  /\ SF_vars(CommandTask)

\* ------------------------------------------- the interface's metrics cache
\* Metrics the endpoint of auto_optimize_loop reports.
CycleMetrics ==
  {m \in GapMetrics : m.vote_lag = 10 /\ m.network_latency_ms = 30
                        /\ m.skip_rate \in {2, 12} /\ m.vote_success_rate \in {80, 97}}

\* Calls of get_validator_metrics the model follows.
MaxCalls == 4

\* The steps of get_validator_metrics that can fail, in order: the `?` ones
\* return Err, get_validator_stake and estimate_network_latency can panic.
FetchSteps ==
  <<"get_epoch_info", "get_account", "deserialize", "get_validator_stake", "get_slot",
    "get_recent_performance_samples", "estimate_network_latency">>

\* A call that caches what it has as soon as the slot is known, before the
\* performance samples are fetched.
get_validator_metrics_caching_early(cache, failed_at, metrics) ==
  IF failed_at = 0
  THEN [cache |-> metrics, ok |-> TRUE, returned |-> metrics]
  ELSE [cache |-> IF failed_at > 5 THEN metrics ELSE cache, ok |-> FALSE,
        returned |-> DefaultMetrics]

\* SolanaInterface::get_validator_metrics on the cache: a failure at step
\* failed_at (0: none) returns before the metrics are built; otherwise the
\* metrics are built, written to the cache and returned.
get_validator_metrics_call(cache, failed_at, metrics) ==
  IF failed_at = 0
  THEN [cache |-> metrics, ok |-> TRUE, returned |-> metrics]
  ELSE [cache |-> cache, ok |-> FALSE, returned |-> DefaultMetrics]

\* A call of get_validator_metrics.
sample_metrics ==
  /\ gm_calls < MaxCalls
  /\ \E failed_at \in 0..Len(FetchSteps), metrics \in CycleMetrics :
       LET call == get_validator_metrics_call(metrics_cache, failed_at, metrics)
       IN /\ metrics_cache' = call.cache
          /\ gm_returned' = [failed_at |-> failed_at, ok |-> call.ok, value |-> call.returned]
  /\ gm_calls' = gm_calls + 1
  /\ UNCHANGED <<current_config, optimized_json, last_call>>
  /\ UNCHANGED <<pmVars, cfVars, smVars, lpVars, cyVars, wtVars, mtVars, tkVars>>

GMInit ==
  /\ gm_calls = 0
  /\ gm_returned = [failed_at |-> 0, ok |-> FALSE, value |-> DefaultMetrics]

\* ------------------------------------------------ the optimizer loops
\* Optimization cycles the model counts.
MaxCycles == 2

\* if history.len() > 100 { history.remove(0); }
HistoryCap == 100

\* One iteration of SolanaInterface::auto_optimize_loop: get_validator_metrics
\* (`?`: an error returns from the loop); keep the first metrics as baseline;
\* analyze_performance_gaps; with gaps, count, apply each action (which only
\* prints) and sleep 30 s, otherwise sleep 10 s.
auto_optimize_loop ==
  /\ al_pc = "running"
  /\ \E answer \in Answers, m \in CycleMetrics :
       /\ al_last' = answer
       /\ IF answer # "ok"
          THEN /\ al_pc' = "sample_error"
               /\ UNCHANGED <<metrics_cache, optimization_count, baseline_set, al_sleep>>
          ELSE LET needs_optimization == analyze_performance_gaps(m, m)
               IN /\ metrics_cache' = m
                  /\ baseline_set' = TRUE
                  /\ UNCHANGED al_pc
                  /\ IF needs_optimization # <<>>
                     THEN /\ optimization_count < MaxCycles
                          /\ optimization_count' = optimization_count + 1
                          /\ al_sleep' = 30
                     ELSE /\ UNCHANGED optimization_count
                          /\ al_sleep' = 10
  /\ UNCHANGED <<current_config, optimized_json, last_call>>
  /\ UNCHANGED <<ro_pc, ro_last, metrics_history, snapshots_collected>>
  /\ UNCHANGED <<pmVars, cfVars, smVars, lpVars, wtVars, mtVars, gmVars, tkVars>>

\* Snapshots the model lets start_optimization collect.
MaxSnapshots == 102

\* A history that drops the snapshot just pushed once it is full.
push_history_evict_newest(history, snapshot) ==
  IF Len(history) + 1 > HistoryCap THEN history ELSE Append(history, snapshot)

\* history.push(snapshot.clone()); if history.len() > 100 { history.remove(0); }
push_history(history, snapshot) ==
  IF Len(history) + 1 > HistoryCap
  THEN Tail(Append(history, snapshot))
  ELSE Append(history, snapshot)

\* Environments in which start_optimization samples, and what the system
\* reports beside them.
CycleEnvs ==
  {env \in Environments :
     /\ env.keypairs_ok /\ env.load_ok
     /\ env.eps["local"].rate = 97
     /\ env.eps["remote"] = [answer |-> "ok", rate |-> 80]}

SystemSamples == [cpu_usage : {45, 90}, memory_usage_mb : {4000, 8000}]

\* collect_performance_snapshot: the performance parsed from the validator list
\* (fixed latency 45) or the baseline (skip rate 12, latency 120), with the
\* system's metrics.
PerformanceSnapshotOf(perf, sys) ==
  [cpu_usage |-> sys.cpu_usage, memory_usage_mb |-> sys.memory_usage_mb,
   network_latency_ms |-> IF perf.src = "baseline" THEN 120 ELSE 45,
   skip_rate |-> IF perf.src = "baseline" THEN 12 ELSE 3,
   vote_success_rate |-> perf.rate]

\* for update in updates { self.apply_optimization(update).await?; }: an update
\* that requires a restart goes to update_config_file, any other to
\* apply_hot_update (an error when solana-validator cannot be run); the first
\* error ends the loop.
RECURSIVE ApplyUpdates(_, _, _, _)
ApplyUpdates(st, updates, hotOk, writeOk) ==
  IF updates = <<>> \/ ~st.ok
  THEN st
  ELSE LET u == Head(updates)
           r == update_config_file(st.new, u, writeOk)
           next == IF u.requires_restart
                   THEN [new |-> r.new, ok |-> r.ok,
                         state |-> IF r.state = "untouched" THEN st.state ELSE r.state]
                   ELSE [st EXCEPT !.ok = hotOk]
       IN ApplyUpdates(next, Tail(updates), hotOk, writeOk)

\* One iteration of RealOptimizer::start_optimization: collect a snapshot (`?`),
\* push it to the history and drop the oldest beyond the cap, analyze, apply
\* the updates (`?`), sleep 10 s.
start_optimization ==
  /\ ro_pc = "running"
  /\ snapshots_collected < MaxSnapshots
  /\ \E env \in CycleEnvs, sys \in SystemSamples, hotOk \in BOOLEAN, writeOk \in BOOLEAN :
       LET perf == get_validator_performance(env)
           snapshot == PerformanceSnapshotOf(perf, sys)
           updates == analyze_and_optimize(current_config, snapshot)
           done == ApplyUpdates([new |-> current_config, ok |-> TRUE,
                                 state |-> optimized_json.state],
                                updates, hotOk, writeOk)
       IN IF ~perf.ok
          THEN /\ ro_pc' = "sample_error"
               /\ ro_last' = "error"
               /\ UNCHANGED <<metrics_history, snapshots_collected, current_config,
                              optimized_json>>
          ELSE /\ ro_last' = perf.src
               /\ snapshots_collected' = snapshots_collected + 1
               /\ metrics_history' = push_history(metrics_history, snapshots_collected + 1)
               /\ current_config' = done.new
               /\ optimized_json' =
                    IF done.state = optimized_json.state /\ done.new = current_config
                    THEN optimized_json
                    ELSE [state |-> done.state, value |-> done.new]
               /\ ro_pc' = IF done.ok THEN "running" ELSE "apply_error"
  /\ UNCHANGED <<metrics_cache, last_call>>
  /\ UNCHANGED <<al_pc, al_last, optimization_count, baseline_set, al_sleep>>
  /\ UNCHANGED <<pmVars, cfVars, smVars, lpVars, wtVars, mtVars, gmVars, tkVars>>

CYInit ==
  /\ al_pc = "running"
  /\ al_last = "none"
  /\ optimization_count = 0
  /\ baseline_set = FALSE
  /\ al_sleep = 0
  /\ ro_pc = "running"
  /\ ro_last = "none"
  /\ metrics_history = <<>>
  /\ snapshots_collected = 0

CYNext ==
  \/ auto_optimize_loop
  \/ start_optimization

\* ------------------------------------------- waiting for a subprocess
\* Seconds of waiting the model follows.
MaxWait == 12

\* tokio::time::timeout(Duration::from_secs(10), ..) in stop_validator_internal
StopTimeout == 10

\* The operations that wait for a subprocess with std's blocking calls:
\* Child::wait in stop_validator_internal, Command::output in the others.
WaitingOps ==
  {"apply_hot_update", "check_solana_installation", "stop_validator_internal",
   "update_via_rpc"}

\* The operation starts its subprocess wait. stop_validator_internal has sent
\* Child::kill before; the others have just spawned the command. The
\* subprocess may be one that never exits.
begin_wait ==
  /\ wt_op = "idle"
  /\ \E op \in WaitingOps, child \in {"running", "hung"} :
       /\ wt_op' = op
       /\ wt_child' = child
  /\ wt_elapsed' = 0
  /\ UNCHANGED wt_result
  /\ UNCHANGED <<pmVars, cfVars, smVars, lpVars, adVars, cyVars, mtVars, gmVars, tkVars>>

\* The subprocess exits.
subprocess_exits ==
  /\ wt_op # "idle"
  /\ wt_child = "running"
  /\ wt_child' = "exited"
  /\ UNCHANGED <<wt_op, wt_elapsed, wt_result>>
  /\ UNCHANGED <<pmVars, cfVars, smVars, lpVars, adVars, cyVars, mtVars, gmVars, tkVars>>

\* A second passes while the operation is blocked in Child::wait or
\* Command::output.
wait_second ==
  /\ wt_op # "idle"
  /\ wt_child # "exited"
  /\ wt_elapsed < MaxWait
  /\ wt_elapsed' = wt_elapsed + 1
  /\ UNCHANGED <<wt_op, wt_child, wt_result>>
  /\ UNCHANGED <<pmVars, cfVars, smVars, lpVars, adVars, cyVars, mtVars, gmVars, tkVars>>

\* The blocking call returns, which it does only once the subprocess has
\* exited. In stop_validator_internal the call is the whole body of the future
\* given to timeout: the future has no await point, so it is ready on its first
\* poll and the match takes the Ok arm whatever time has passed.
wait_returns ==
  /\ wt_op # "idle"
  /\ wt_child = "exited"
  /\ wt_op' = "idle"
  /\ wt_result' = IF wt_op = "stop_validator_internal" THEN "stopped" ELSE "output"
  /\ UNCHANGED <<wt_child, wt_elapsed>>
  /\ UNCHANGED <<pmVars, cfVars, smVars, lpVars, adVars, cyVars, mtVars, gmVars, tkVars>>

\* ------------------------------------------------ the metric estimates
\* A rate is an exact fraction <<numerator, denominator>> in lowest terms,
\* denominator positive, standing for the f64 the code computes (up to the
\* rounding of f64).
RECURSIVE Gcd(_, _)
Gcd(a, b) == IF b = 0 THEN a ELSE Gcd(b, a % b)

Rate(n, d) ==
  LET g == Gcd(IF n < 0 THEN 0 - n ELSE n, d)
  IN <<n \div g, d \div g>>

RateEq(a, b) == a[1] * b[2] = b[1] * a[2]

RateLe(a, b) == a[1] * b[2] <= b[1] * a[2]

\* f64::min and f64::max
RateMin(a, b) == IF RateLe(a, b) THEN a ELSE b

RateMax(a, b) == IF RateLe(a, b) THEN b ELSE a

\* u64::saturating_sub
saturating_sub(a, b) == IF a > b THEN a - b ELSE 0

\* Performance samples get_recent_performance_samples may return.
MaxSamples == 2

PerfSamples == [num_slots : {0, 500, 1000}, num_transactions : {0, 40000, 80000, 120000}]

SampleLists == UNION {[1..n -> PerfSamples] : n \in 0..MaxSamples}

\* samples.iter().map(|s| s.num_slots).sum()
RECURSIVE total_slots(_)
total_slots(samples) ==
  IF samples = <<>> THEN 0 ELSE Head(samples).num_slots + total_slots(Tail(samples))

\* samples.iter().map(|s| s.num_transactions).sum()
RECURSIVE total_transactions(_)
total_transactions(samples) ==
  IF samples = <<>> THEN 0
  ELSE Head(samples).num_transactions + total_transactions(Tail(samples))

\* The deficit taken by plain subtraction, below zero when the transactions
\* exceed the expectation.
skip_rate_signed_deficit(samples) ==
  IF samples = <<>> \/ total_slots(samples) = 0
  THEN <<5, 1>>
  ELSE Rate((total_slots(samples) * 100 - total_transactions(samples)) * 100,
            total_slots(samples) * 100)

\* SolanaInterface::calculate_skip_rate
calculate_skip_rate(samples) ==
  IF samples = <<>>
  THEN <<5, 1>>
  ELSE IF total_slots(samples) > 0
  THEN LET expected_tx == total_slots(samples) * 100
           actual_tx_deficit == saturating_sub(expected_tx, total_transactions(samples))
       IN Rate(actual_tx_deficit * 100, expected_tx)
  ELSE <<5, 1>>

\* The skip rate of StandaloneOptimizer::get_real_metrics, clamped as it is
\* stored.
standalone_skip_rate(samples) ==
  LET skip_rate ==
        IF total_slots(samples) > 0
        THEN Rate(saturating_sub(total_slots(samples) * 100,
                                 total_transactions(samples)) * 100,
                  total_slots(samples) * 100)
        ELSE <<100, 1>>
  IN RateMax(RateMin(skip_rate, <<100, 1>>), <<0, 1>>)

\* The window of slots in which a vote counts as recent.
VoteWindow == 150

\* Slots of the votes a vote state may hold, and current slots.
VoteSlots == {40, 120, 260, 290, 300}

CurrentSlots == {100, 300}

\* vote_state.votes.iter().filter(|v| v.slot() > slot.saturating_sub(150)).count()
recent_votes(votes, slot) ==
  Cardinality({v \in votes : v > saturating_sub(slot, VoteWindow)})

\* get_validator_metrics' vote_success_rate
vote_success_rate(votes, slot) ==
  IF Cardinality(votes) > 0
  THEN RateMin(Rate(recent_votes(votes, slot) * 100, VoteWindow), <<100, 1>>)
  ELSE <<0, 1>>

\* Columns 4 and 5 of the validator's line in `solana validators`, as
\* characters.
PercentTokens ==
  {<<"9", "7", "%">>, <<"1", "5", "0", "%">>, <<"-", "5", "%">>, <<"-">>, <<"3">>}

DecimalDigits == <<"0", "1", "2", "3", "4", "5", "6", "7", "8", "9">>

IsDigit(c) == \E i \in 1..10 : DecimalDigits[i] = c

DigitValue(c) == (CHOOSE i \in 1..10 : DecimalDigits[i] = c) - 1

\* str::trim_end_matches('%')
RECURSIVE trim_end_matches(_, _)
trim_end_matches(chars, c) ==
  IF chars # <<>> /\ chars[Len(chars)] = c
  THEN trim_end_matches(SubSeq(chars, 1, Len(chars) - 1), c)
  ELSE chars

RECURSIVE DigitsValue(_)
DigitsValue(chars) ==
  IF chars = <<>> THEN 0
  ELSE DigitsValue(SubSeq(chars, 1, Len(chars) - 1)) * 10 + DigitValue(chars[Len(chars)])

\* str::parse::<f64>() on an optional sign and decimal digits: <<TRUE, value>>,
\* or <<FALSE, 0>> for anything else.
parse_f64(chars) ==
  LET digits == IF chars # <<>> /\ chars[1] = "-" THEN Tail(chars) ELSE chars
  IN IF digits = <<>> \/ \E i \in 1..Len(digits) : ~IsDigit(digits[i])
     THEN <<FALSE, 0>>
     ELSE <<TRUE, IF digits = chars THEN DigitsValue(digits) ELSE 0 - DigitsValue(digits)>>

\* parse_validator_output's parts[k].trim_end_matches('%')
\*   .parse::<f64>().unwrap_or(0.0)
parse_percent(chars) ==
  LET parsed == parse_f64(trim_end_matches(chars, "%"))
  IN IF parsed[1] THEN <<parsed[2], 1>> ELSE <<0, 1>>

\* vote_state.last_voted_slot(): None for a vote state without votes.
LastVotedSlots == {None} \cup VoteSlots

\* The lag taken by plain subtraction.
vote_lag_plain_sub(slot, last_voted_slot) ==
  slot - (IF last_voted_slot = None THEN slot ELSE last_voted_slot)

\* slot.saturating_sub(vote_state.last_voted_slot().unwrap_or(slot)), stored in
\* the u64 vote_lag.
vote_lag(slot, last_voted_slot) ==
  saturating_sub(slot, IF last_voted_slot = None THEN slot ELSE last_voted_slot)

\* Samples whose periods the latency estimate reads.
MaxPeriods == 3

\* sample_period_secs: u16
U16 == 65536

\* sample_period_secs of the performance samples.
PeriodVals == {0, 60, 62, 1371}

PeriodLists == UNION {[1..n -> PeriodVals] : n \in 0..MaxPeriods}

\* SolanaInterface::estimate_network_latency. (time_variance * 50) is a u16
\* product: beyond 65535 it panics in a build with overflow checks and wraps in
\* one without. The u32 sum of at most MaxPeriods such products does not
\* overflow.
estimate_network_latency(periods, overflow_checks) ==
  IF Len(periods) < 2
  THEN [panic |-> FALSE, value |-> 50]
  ELSE LET time_variance(i) == saturating_sub(periods[i + 1], periods[i])
           latency(i) == (time_variance(i) * 50) % U16
           overflows == \E i \in 1..(Len(periods) - 1) : time_variance(i) * 50 >= U16
           sum[i \in 0..(Len(periods) - 1)] == IF i = 0 THEN 0 ELSE sum[i - 1] + latency(i)
           mean == sum[Len(periods) - 1] \div (Len(periods) - 1)
           low == IF mean < 20 THEN 20 ELSE mean
       IN IF overflows /\ overflow_checks
          THEN [panic |-> TRUE, value |-> 0]
          ELSE [panic |-> FALSE, value |-> IF low > 500 THEN 500 ELSE low]

\* The inputs of an estimate; each function reads its own.
NoInput ==
  [chars |-> <<>>, column |-> "none", last_voted_slot |-> None, periods |-> <<>>,
   samples |-> <<>>, slot |-> 0, votes |-> {}]

Measure(fn, arg, result) ==
  /\ measured' = [arg |-> arg, fn |-> fn, panic |-> FALSE, result |-> result]
  /\ UNCHANGED <<pmVars, cfVars, smVars, lpVars, adVars, cyVars, wtVars, gmVars, tkVars>>

\* SolanaInterface::get_validator_metrics estimates the skip rate.
estimate_skip_rate ==
  \E samples \in SampleLists :
    Measure("calculate_skip_rate", [NoInput EXCEPT !.samples = samples],
            calculate_skip_rate(samples))

\* StandaloneOptimizer::get_real_metrics estimates the skip rate.
estimate_standalone_skip_rate ==
  \E samples \in SampleLists :
    Measure("get_real_metrics", [NoInput EXCEPT !.samples = samples],
            standalone_skip_rate(samples))

\* SolanaInterface::get_validator_metrics estimates the vote success rate.
estimate_vote_success_rate ==
  \E slot \in CurrentSlots :
    \E votes \in SUBSET {v \in VoteSlots : v <= slot} :
      Measure("vote_success_rate", [NoInput EXCEPT !.slot = slot, !.votes = votes],
              vote_success_rate(votes, slot))

\* RealOptimizer::parse_validator_output reads one of the two rates of the
\* snapshot from its column.
parse_rate_column ==
  \E column \in {"skip_rate", "vote_success_rate"}, chars \in PercentTokens :
    Measure("parse_validator_output", [NoInput EXCEPT !.chars = chars, !.column = column],
            parse_percent(chars))

\* SolanaInterface::get_validator_metrics reports the vote lag.
report_vote_lag ==
  \E slot \in CurrentSlots, last_voted_slot \in LastVotedSlots :
    Measure("vote_lag", [NoInput EXCEPT !.last_voted_slot = last_voted_slot, !.slot = slot],
            <<vote_lag(slot, last_voted_slot), 1>>)

\* SolanaInterface::get_validator_metrics estimates the network latency.
estimate_latency ==
  \E periods \in PeriodLists, overflow_checks \in BOOLEAN :
    LET estimate == estimate_network_latency(periods, overflow_checks)
    IN /\ measured' = [arg |-> [NoInput EXCEPT !.periods = periods],
                       fn |-> "estimate_network_latency",
                       panic |-> estimate.panic, result |-> <<estimate.value, 1>>]
       /\ UNCHANGED <<pmVars, cfVars, smVars, lpVars, adVars, cyVars, wtVars, gmVars, tkVars>>

MTInit == measured = [arg |-> NoInput, fn |-> "none", panic |-> FALSE, result |-> <<0, 1>>]

MTNext ==
  \/ estimate_skip_rate
  \/ estimate_standalone_skip_rate
  \/ estimate_vote_success_rate
  \/ parse_rate_column
  \/ estimate_latency
  \/ report_vote_lag

WTInit ==
  /\ wt_op = "idle"
  /\ wt_child = "exited"
  /\ wt_elapsed = 0
  /\ wt_result = "none"

WTNext ==
  \/ begin_wait
  \/ subprocess_exits
  \/ wait_second
  \/ wait_returns

Init == PMInit /\ CFInit /\ SMInit /\ LPInit /\ ADInit /\ CYInit /\ WTInit /\ MTInit
          /\ GMInit /\ TKInit

Next ==
  \/ start
  \/ stop
  \/ restart
  \/ enable_auto_optimize
  \/ hot_reload
  \/ SendApplyConfig
  \/ SendDisableAutoOptimize
  \/ SendGetStatus
  \/ start_command_loop
  \/ ChildExits
  \/ validator_stop

Spec == Init /\ [][Next]_vars

\* The configuration file across process starts, saves and crashes.
SpecConfig == Init /\ [][CFNext]_vars

\* The metrics samplers, each called in every environment.
SpecSampler == Init /\ [][SMNext]_vars

\* The manager's periodic loops beside its command loop, on a clock.
SpecLoops == Init /\ [][LPNext]_vars

\* The loops and the cooldown of the optimization loop.
SpecCooldown == Init /\ [][CDNext]_vars

\* The loops around a started validator.
SpecAutoTune == Init /\ [][ATNext]_vars

\* The advisors and update_config_file, called in every state of their objects.
SpecAdvisor == Init /\ [][ADNext]_vars

\* The two optimizer loops, iteration by iteration.
SpecCycles == Init /\ [][CYNext]_vars

\* The manager's three tasks, statement by statement, with callers of the
\* public API.
SpecTasks == Init /\ [][TKNext]_vars

\* The same under the scheduling of the runtime.
SpecTasksFair == Init /\ [][TKNext]_vars /\ TKFairness

\* Calls of SolanaInterface::get_validator_metrics on one interface.
SpecCache == Init /\ [][sample_metrics]_vars

\* RealOptimizer::start_optimization alone, cycle after cycle.
SpecHistory == Init /\ [][start_optimization]_vars

\* The operations that wait for a subprocess.
SpecWait == Init /\ [][WTNext]_vars

\* The estimates of the rates, on inputs drawn from the sets above.
SpecMetrics == Init /\ [][MTNext]_vars

\* ------------------------------------------------------------------ claims
\* The step of the command loop that handles a command of the given kind.
Handles(kind) ==
  /\ queue # <<>>
  /\ Head(queue).kind = kind
  /\ queue' = Tail(queue)

\* C1: a StartValidator command handled while a child handle is held spawns no
\* second validator process and leaves the held handle unchanged.
C1_StartWhileRunningRejected ==
  [][(Handles("StartValidator") /\ validator_process # 0)
       => (validator_process' = validator_process /\ nSpawned' = nSpawned)]_vars

\* C2: the forced kill comes only after the graceful signal: every SIGKILL a
\* validator process receives follows a SIGTERM, and a process that exits on
\* SIGTERM is never sent SIGKILL.
C2_GracefulBeforeForced ==
  \A c \in ChildIds :
    /\ \A i \in 1..Len(children[c].sigs) :
         children[c].sigs[i] = "SIGKILL"
           => \E j \in 1..(i - 1) : children[c].sigs[j] = "SIGTERM"
    /\ ~children[c].ignoresTerm
         => \A i \in 1..Len(children[c].sigs) : children[c].sigs[i] # "SIGKILL"

C4_SaveLoadAtomic ==
  cf_loaded.called =>
    /\ cf_save.how = "saved" => (cf_loaded.ok /\ cf_loaded.value = cf_save.new)
    /\ cf_save.how = "crashed" =>
         /\ cf_loaded.ok
         /\ \/ cf_loaded.value = cf_save.new
            \/ /\ cf_save.old.exists
               /\ ParseOk(cf_save.old.text)
               /\ cf_loaded.value = Parse(cf_save.old.text)

\* The samplers that query the RPC endpoints through SolanaInterface.
RpcSamplers == {"get_current_metrics", "get_current_vote_success"}

\* C5: an RPC sample asks the local endpoint first and the remote endpoint only
\* after the local one failed, each at most once; when the local attempt fails
\* and the remote one succeeds the sample is Ok and carries the remote
\* endpoint's metrics.
C5_LocalThenRemote ==
  sampled.fn \in RpcSamplers =>
    LET a == sampled.result.attempts
        eps == sampled.env.eps
    IN /\ a \in {<<>>, <<"local">>, <<"local", "remote">>}
       /\ a = <<"local", "remote">> => eps["local"].answer # "ok"
       /\ (a = <<"local", "remote">> /\ eps["remote"].answer = "ok")
            => /\ sampled.result.ok
               /\ sampled.result.src = "remote"
               /\ sampled.result.rate = eps["remote"].rate
       /\ (a # <<>> /\ eps["local"].answer = "ok")
            => (a = <<"local">> /\ sampled.result.src = "local")

\* C5's case: the local endpoint failed and the sample came from the remote
\* one, the two reporting different rates.
C5_Witness ==
  /\ sampled.fn \in RpcSamplers
  /\ sampled.result.attempts = <<"local", "remote">>
  /\ sampled.env.eps["local"].answer = "down"
  /\ sampled.env.eps["local"].rate # sampled.env.eps["remote"].rate
  /\ sampled.result = Success("remote", sampled.env.eps["remote"].rate, <<"local", "remote">>)

\* C6: a sample that asked both endpoints and got an answer from neither is an
\* error, not an Ok carrying substituted values.
C6_UnavailableIsError ==
  (/\ sampled.fn # "none"
   /\ sampled.result.attempts = <<"local", "remote">>
   /\ sampled.env.eps["local"].answer = "down"
   /\ sampled.env.eps["remote"].answer = "down")
    => ~sampled.result.ok

\* C7: after a command that changes the in-memory configuration has been
\* handled, the configuration file holds the in-memory configuration.
C7_DiskFollowsMemory ==
  [][((Handles("ApplyConfig") \/ Handles("HotReload")) /\ config' # config)
       => (ParseOk(disk') /\ Parse(disk') = config')]_vars

\* C8: every request whose handling hit a spawn or save failure returned an
\* error to its caller.
C8_FailuresSurfaced ==
  \A r \in ReqIds : r \in failed => replies[r] = "Err"

\* C9: a hot-reload whose configuration save fails leaves the in-memory
\* configuration as it was.
C9_NoPartialApply ==
  [][(Handles("HotReload") /\ Head(queue).req \in failed' \ failed)
       => config' = config]_vars

\* C11: no periodic loop returns because a sample failed.
C11_FailedSampleSkipped ==
  /\ al_pc # "sample_error"
  /\ ro_pc # "sample_error"

\* C12: an operation that waits for a subprocess has waited at most the 10 s of
\* the stop timeout.
C12_WaitsBounded == wt_op # "idle" => wt_elapsed <= StopTimeout

\* C13: handling RestartValidator kills the held child and releases its handle
\* before it spawns; afterwards the manager holds the newly spawned child when
\* the spawn succeeded and no child when it failed.
C13_RestartComposite ==
  [][Handles("RestartValidator")
       => /\ validator_process # 0
               => /\ children'[validator_process].state = "dead"
                  /\ children'[validator_process].sigs
                       = Append(children[validator_process].sigs, "SIGKILL")
                  /\ validator_process' # validator_process
          /\ nSpawned' = nSpawned + 1
               => /\ validator_process' = nSpawned'
                  /\ children'[nSpawned'].state = "alive"
                  /\ children'[nSpawned'].sigs = <<>>
          /\ nSpawned' = nSpawned => validator_process' = 0]_vars

\* C13's case: a restart that replaced a running child by a new one.
C13_Witness ==
  /\ validator_process = 2
  /\ children[1].state = "dead"
  /\ children[1].sigs = <<"SIGKILL">>
  /\ children[2].state = "alive"
  /\ queue = <<>>
  /\ nextReq = 3
  /\ replies[2] = "Ok"

\* C14: analyze_performance_gaps reports exactly one action for each violated
\* threshold and none for the others, in the order vote success (< 97), skip
\* rate (> 3), vote lag (> 30), latency (> 50); metrics of vote success 80, skip
\* rate 2, vote lag 10 and latency 30 give exactly one, vote-success, action.
C14_GapRulesInOrder ==
  last_call.fn = "analyze_performance_gaps" =>
    LET m == last_call.arg
        out == last_call.result
        violated == <<m.vote_success_rate < 97, m.skip_rate > 3, m.vote_lag > 30,
                      m.network_latency_ms > 50>>
        RuleOf(a) ==
          CASE a \in {"AggressiveVoteOptimization", "VoteLatencyReduction"} -> 1
            [] a \in {"AggressiveResourceOptimization", "ThreadingOptimization"} -> 2
            [] a = "NetworkLatencyOptimization" -> 3
            [] a = "QUICProtocolOptimization" -> 4
    IN /\ \A i, j \in 1..Len(out) : i < j => RuleOf(out[i]) < RuleOf(out[j])
       /\ \A r \in 1..4 : violated[r] <=> \E i \in 1..Len(out) : RuleOf(out[i]) = r
       /\ (m.vote_success_rate = 80 /\ m.skip_rate = 2 /\ m.vote_lag = 10
             /\ m.network_latency_ms = 30)
            => (Len(out) = 1 /\ RuleOf(out[1]) = 1)

\* C14's case: the advisor called on the metrics 80 / 2 / 10 / 30.
C14_Witness ==
  /\ last_call.fn = "analyze_performance_gaps"
  /\ last_call.arg = [network_latency_ms |-> 30, skip_rate |-> 2, vote_lag |-> 10,
                      vote_success_rate |-> 80]
  /\ last_call.result = <<"AggressiveVoteOptimization">>

C17_NoSlotsNoSkips ==
  (measured.fn \in {"calculate_skip_rate", "get_real_metrics"}
     /\ total_slots(measured.arg.samples) = 0)
    => RateEq(measured.result, <<0, 1>>)

\* C18: when the slots add up to more than zero, the skip rate is
\* 100 * max(0, expected - actual) / expected with expected = 100 per slot; 1000
\* slots with 80000 transactions give 20.
C18_SkipRateFormula ==
  (measured.fn = "calculate_skip_rate" /\ total_slots(measured.arg.samples) > 0)
    => LET totalSlots == total_slots(measured.arg.samples)
           actualTx == total_transactions(measured.arg.samples)
           expectedTx == totalSlots * 100
           deficit == IF expectedTx - actualTx > 0 THEN expectedTx - actualTx ELSE 0
       IN /\ measured.result[1] * expectedTx = 100 * deficit * measured.result[2]
          /\ (totalSlots = 1000 /\ actualTx = 80000) => RateEq(measured.result, <<20, 1>>)

\* C18's case: 1000 slots and 80000 transactions were estimated at 20.
C18_Witness ==
  /\ measured.fn = "calculate_skip_rate"
  /\ total_slots(measured.arg.samples) = 1000
  /\ total_transactions(measured.arg.samples) = 80000
  /\ RateEq(measured.result, <<20, 1>>)

\* C19: every vote success rate and skip rate estimated or parsed lies between
\* 0 and 100.
C19_RatesInRange ==
  measured.fn \in {"calculate_skip_rate", "get_real_metrics", "parse_validator_output",
                   "vote_success_rate"}
    => RateLe(<<0, 1>>, measured.result) /\ RateLe(measured.result, <<100, 1>>)

\* C20: when all of the N > 0 recorded votes are inside the window, the vote
\* success rate is 100.
C20_AllRecentIsFull ==
  (/\ measured.fn = "vote_success_rate"
   /\ measured.arg.votes # {}
   /\ \A v \in measured.arg.votes :
        v > saturating_sub(measured.arg.slot, VoteWindow))
    => RateEq(measured.result, <<100, 1>>)

\* C21: the latency estimate lies in [20, 500]; with at least two samples it
\* is the mean over the consecutive pairs of 50 * max(0, period[i+1] -
\* period[i]), clamped to the band, nothing having overflowed or wrapped.
C21_LatencyBand ==
  measured.fn = "estimate_network_latency"
    => LET periods == measured.arg.periods
           pairs == Len(periods) - 1
           term(i) == 50 * (IF periods[i + 1] > periods[i]
                            THEN periods[i + 1] - periods[i] ELSE 0)
           total[i \in 0..pairs] == IF i = 0 THEN 0 ELSE total[i - 1] + term(i)
           mean == total[pairs] \div pairs
       IN /\ ~measured.panic
          /\ measured.result[1] >= 20 /\ measured.result[1] <= 500
          /\ Len(periods) >= 2 =>
               measured.result[1] = IF mean < 20 THEN 20 ELSE IF mean > 500 THEN 500 ELSE mean

\* C22: the vote lag reported for a current slot and a last voted slot is
\* their difference, 0 when the last voted slot is ahead, and never negative.
C22_VoteLagSaturates ==
  (measured.fn = "vote_lag" /\ measured.arg.last_voted_slot # None)
    => LET difference == measured.arg.slot - measured.arg.last_voted_slot
       IN /\ measured.result[1] >= 0
          /\ measured.result[1] = IF difference > 0 THEN difference ELSE 0

\* C22's case: the last voted slot was ahead of the current slot and the lag
\* reported was 0.
C22_Witness ==
  /\ measured.fn = "vote_lag"
  /\ measured.arg.last_voted_slot # None
  /\ measured.arg.last_voted_slot > measured.arg.slot
  /\ measured.result = <<0, 1>>

\* C23: after every cycle of start_optimization the history holds at most 100
\* snapshots, and they are the latest ones collected, in the order of their
\* collection.
C23_HistoryKeepsLatest ==
  /\ Len(metrics_history) <= HistoryCap
  /\ Len(metrics_history) =
       IF snapshots_collected < HistoryCap THEN snapshots_collected ELSE HistoryCap
  /\ \A i \in 1..Len(metrics_history) :
       metrics_history[i] = snapshots_collected - Len(metrics_history) + i

\* C23's case: more than 100 snapshots were collected and the oldest ones are
\* gone from the full history.
C23_Witness ==
  /\ snapshots_collected > HistoryCap
  /\ Len(metrics_history) = HistoryCap
  /\ metrics_history[1] = snapshots_collected - HistoryCap + 1
  /\ metrics_history[HistoryCap] = snapshots_collected

\* C24: the cache holds the default value before any call; a call that
\* succeeds leaves its result in the cache, and a call that fails at any step
\* leaves the cache as it was.
C24_LastSuccessWins ==
  /\ [](gm_calls = 0 => metrics_cache = DefaultMetrics)
  /\ [][gm_calls' # gm_calls
          => metrics_cache' = IF gm_returned'.ok THEN gm_returned'.value
                              ELSE metrics_cache]_vars

\* C24's case: a call has failed after an earlier one succeeded, and the cache
\* holds the metrics of the earlier one.
C24_Witness ==
  /\ gm_calls > 1
  /\ ~gm_returned.ok
  /\ gm_returned.failed_at = 6
  /\ metrics_cache # DefaultMetrics

\* C25: a task of the manager that requests a lock or a slot of the command
\* channel eventually obtains it.
C25_TasksObtainLocks ==
  /\ [][\A t \in Tasks : tk_pc[t] = "wants" => tk_lock'[t] = tk_lock[t]]_vars
  /\ \A t \in Tasks : (tk_pc[t] = "wants") ~> (tk_pc[t] = "has")

\* C25's case: the monitoring loop waits for the optimization-state lock while
\* another task holds it, and the optimization loop waits for a slot of the
\* full channel.
C25_Witness ==
  /\ tk_pc["monitoring"] = "wants" /\ tk_lock["monitoring"] = "state"
  /\ tk_locks["state"].writer = "command"
  /\ tk_pc["optimization"] = "has" /\ tk_lock["optimization"] = "channel"
  /\ Len(tk_channel) = MaxChannel

C28_AutoFallsBackToTestnet ==
  (/\ sampled.fn = "auto_optimize_loop"
   /\ sampled.env.load_ok
   /\ sampled.env.keypairs_ok
   /\ sampled.env.eps["local"].answer # "ok"
   /\ sampled.env.eps["remote"].answer = "ok")
  => (sampled.result.ok /\ sampled.result.src = "remote")

\* C29: the optimization loop starts a cycle only with auto_optimize set and
\* more than 60 s after last_optimization; the cycle ends with last_optimization
\* at the present, not before its start; two consecutive cycles start more than
\* 60 s apart.
C29_CyclesApart ==
  [][cycle_started' # cycle_started =>
       /\ auto_optimize
       /\ cycle_started' - last_optimization > OptimizeCooldown
       /\ last_optimization' >= cycle_started'
       /\ last_optimization' <= now' + MaxLate
       /\ (cycle_started # None => cycle_started' - cycle_started > OptimizeCooldown)]_vars

\* C29's case: a second cycle has begun, one tick after the cooldown of the
\* first ran out.
C29_Witness ==
  /\ cycle_started # None
  /\ cycle_started > 2 * OptimizeCooldown
  /\ cycle_started < 2 * OptimizeCooldown + OptimizeInterval
  /\ last_optimization >= cycle_started

C10_LoopsExitOnShutdown ==
  shutdown_at # None =>
    \A l \in Loops : last_iter[l] <= shutdown_at + Interval[l]

====
